---- MODULE Spec2Model ----
(***************************************************************************)
(* PNGrs: the chunk type identifier (src/png/chunk/chunk_type.rs) and the  *)
(* chunk record codec (src/png/chunk.rs), driven the way commands.rs and   *)
(* the unit tests drive them.                                              *)
(*                                                                         *)
(* Number representation.  TLC's integers are 32-bit signed, so a u32 (and *)
(* a usize obtained from one) is the record [hi |-> h, lo |-> l] of its    *)
(* two 16-bit halves: its value is h * 65536 + l.  A u8 and an index into  *)
(* a buffer are plain integers.  A byte buffer (Vec<u8>, &[u8], [u8; 4],   *)
(* the UTF-8 bytes of a &str) is a sequence of integers in 0..255.         *)
(*                                                                         *)
(* Result<T> is [ok |-> TRUE, val |-> v] or [ok |-> FALSE, err |-> e],     *)
(* where e is [kind |-> "<variant>", args |-> <<payload>>].  A variable    *)
(* that holds "no value yet" holds <<>>, a value v is held as <<v>>.       *)
(***************************************************************************)
EXTENDS Integers, Sequences, FiniteSets, TLC

VARIABLES
    cinput,   \* the argument of the last ChunkType constructor call
    ctype,    \* its Result<ChunkType>
    flags,    \* the property flags read from ctype
    chunk,    \* the Chunk built by Chunk::new
    buf,      \* the byte buffer handed to the chunk parser
    made,     \* how buf came to be: producer, edit, and the bytes before the edit
    res,      \* the Result<Chunk> of Chunk::try_from(buf)
    legacy,   \* the outcome of the earlier revision's Chunk::try_from(buf)
    png,      \* the chunks of the container held in memory
    probe,    \* the last container calls: append, find, remove, find
    file,     \* the bytes of the PNG file the commands work on
    cmd       \* the last command and what it returned

codecVars == <<cinput, ctype, flags, chunk, buf, made, res, legacy>>

pngVars == <<png, probe, file, cmd>>

vars == <<codecVars, pngVars>>

-----------------------------------------------------------------------------
(* Bounds of the explored inputs *)

\* longest payload of the enumerated chunks
MaxData == 2
\* longest run of bytes appended after a record
MaxTrail == 2

-----------------------------------------------------------------------------
(* Unsigned integers *)

TwoTo16 == 65536

U(h, l) == [hi |-> h, lo |-> l]

\* the u32 / usize whose value is the (small) length n
usize(n) == U(n \div TwoTo16, n % TwoTo16)

\* a < b on unsigned values
ULess(a, b) == a.hi < b.hi \/ (a.hi = b.hi /\ a.lo < b.lo)

\* an unsigned value used as a buffer index (only taken when it is in range)
AsIndex(u) == (u.hi * TwoTo16) + u.lo

\* u32::to_be_bytes
to_be_bytes(u) == <<u.hi \div 256, u.hi % 256, u.lo \div 256, u.lo % 256>>

\* u32::from_be_bytes
from_be_bytes(b) == U((b[1] * 256) + b[2], (b[3] * 256) + b[4])

\* wrapping u32 decrement (the tests' "off by one" checksum)
UDec(u) ==
    IF u.lo > 0 THEN U(u.hi, u.lo - 1)
    ELSE IF u.hi > 0 THEN U(u.hi - 1, TwoTo16 - 1)
    ELSE U(TwoTo16 - 1, TwoTo16 - 1)

-----------------------------------------------------------------------------
(* Bit operations on bytes *)

RECURSIVE BitXor(_, _, _)
BitXor(a, b, n) ==
    IF n = 0 THEN 0
    ELSE (((a % 2) + (b % 2)) % 2) + (2 * BitXor(a \div 2, b \div 2, n - 1))

RECURSIVE BitAnd(_, _, _)
BitAnd(a, b, n) ==
    IF n = 0 THEN 0
    ELSE ((a % 2) * (b % 2)) + (2 * BitAnd(a \div 2, b \div 2, n - 1))

\* a ^ b on bytes, tabulated once (index = value + 1)
nibble_xor == [i \in 1..16 |-> [j \in 1..16 |-> BitXor(i - 1, j - 1, 4)] \o <<>>] \o <<>>

byte_xor ==
    [i \in 1..256 |->
        [j \in 1..256 |->
            (nibble_xor[((i - 1) \div 16) + 1][((j - 1) \div 16) + 1] * 16)
            + nibble_xor[((i - 1) % 16) + 1][((j - 1) % 16) + 1]] \o <<>>] \o <<>>

Xor8(a, b) == byte_xor[a + 1][b + 1]

-----------------------------------------------------------------------------
(* CRC-32/ISO-HDLC (crc crate, CRC_32_ISO_HDLC): reflected polynomial      *)
(* 0xEDB88320, initial value 0xFFFFFFFF, final xor 0xFFFFFFFF.  The        *)
(* register is kept as its four bytes, most significant first.             *)

CrcPoly == <<237, 184, 131, 32>>

CrcInit == <<255, 255, 255, 255>>

CrcXorOut == <<255, 255, 255, 255>>

Xor32(a, b) == <<Xor8(a[1], b[1]), Xor8(a[2], b[2]), Xor8(a[3], b[3]), Xor8(a[4], b[4])>>

Shr1(c) ==
    <<c[1] \div 2,
      ((c[1] % 2) * 128) + (c[2] \div 2),
      ((c[2] % 2) * 128) + (c[3] \div 2),
      ((c[3] % 2) * 128) + (c[4] \div 2)>>

RECURSIVE CrcTableEntry(_, _)
CrcTableEntry(c, k) ==
    IF k = 0 THEN c
    ELSE CrcTableEntry(IF c[4] % 2 = 1 THEN Xor32(Shr1(c), CrcPoly) ELSE Shr1(c), k - 1)

crc_table == [i \in 1..256 |-> CrcTableEntry(<<0, 0, 0, i - 1>>, 8)] \o <<>>

\* one byte into the register: table[(c ^ b) & 0xFF] ^ (c >> 8)
CrcStep(c, b) ==
    LET t == crc_table[Xor8(c[4], b) + 1]
    IN  <<t[1], Xor8(t[2], c[1]), Xor8(t[3], c[2]), Xor8(t[4], c[3])>>

RECURSIVE CrcUpdate(_, _, _)
CrcUpdate(c, bytes, i) ==
    IF c[1] < 0 \/ i > Len(bytes) THEN c
    ELSE CrcUpdate(CrcStep(c, bytes[i]), bytes, i + 1)

\* Crc::<u32>::checksum
checksum(bytes) ==
    from_be_bytes(Xor32(CrcUpdate(CrcInit, bytes, 1), CrcXorOut))

-----------------------------------------------------------------------------
(* Result values *)

Ok(v) == [ok |-> TRUE, val |-> v]

Err(k, a) == [ok |-> FALSE, err |-> [kind |-> k, args |-> a]]

\* slice::split_at
split_at(s, mid) == <<SubSeq(s, 1, mid), SubSeq(s, mid + 1, Len(s))>>

-----------------------------------------------------------------------------
(* ChunkType: src/png/chunk/chunk_type.rs *)

\* a pattern that forgets the six bytes between 'Z' and 'a'
IsRejectedByte_A_to_z(c) == c \in 0..64 \/ c \in 123..255

\* the bytes the pattern 0..=64 | 91..=96 | 123..=255 rejects
IsRejectedByte(c) == c \in 0..64 \/ c \in 91..96 \/ c \in 123..255

\* for c in value { if rejected { bail!(InvalidByte(c)) } }  Ok(Self { code: value })
RECURSIVE TryFromLoop(_, _)
TryFromLoop(value, i) ==
    IF i > Len(value) THEN Ok([code |-> value])
    ELSE IF IsRejectedByte(value[i]) THEN Err("InvalidByte", <<value[i]>>)
    ELSE TryFromLoop(value, i + 1)

\* impl TryFrom<[u8; 4]> for ChunkType
ChunkType_try_from(value) == TryFromLoop(value, 1)

\* from_str validating the letters it has before it looks at the length
ChunkType_from_str_letters_first(s) ==
    IF \E i \in 1..Len(s) : i <= 4 /\ IsRejectedByte(s[i])
    THEN Err("InvalidByte", <<s[CHOOSE i \in 1..Len(s) :
                                   /\ IsRejectedByte(s[i])
                                   /\ \A j \in 1..(i - 1) : ~IsRejectedByte(s[j])]>>)
    ELSE IF Len(s) # 4 THEN Err("InvalidLength", <<usize(Len(s))>>)
    ELSE Ok([code |-> s])

\* impl FromStr for ChunkType; s is the string's UTF-8 bytes
ChunkType_from_str(s) ==
    IF Len(s) # 4 THEN Err("InvalidLength", <<usize(Len(s))>>)
    ELSE ChunkType_try_from(s)

\* ChunkType::bytes
bytes(t) == t.code

\* is_property_bit_on testing 1 << 4
is_property_bit_on_bit4(t, byte) == BitAnd(t.code[(byte - 1) + 1], 16, 8) # 0

\* ChunkType::is_property_bit_on; byte is 1-based in the source, code[] is
\* 0-based there and 1-based here
is_property_bit_on(t, byte) == BitAnd(t.code[(byte - 1) + 1], 32, 8) # 0

is_critical(t) == ~is_property_bit_on(t, 1)

is_public(t) == ~is_property_bit_on(t, 2)

is_reserved_bit_valid(t) == ~is_property_bit_on(t, 3)

is_safe_to_copy(t) == is_property_bit_on(t, 4)

is_valid(t) == is_reserved_bit_valid(t)

-----------------------------------------------------------------------------
(* Chunk: src/png/chunk.rs *)

LENGTH_LENGTH == 4

TYPE_LENGTH == 4

CRC_LENGTH == 4

\* the sum without the crc field
METEDATA_LENGTH_no_crc == LENGTH_LENGTH + TYPE_LENGTH

METEDATA_LENGTH == CRC_LENGTH + LENGTH_LENGTH + TYPE_LENGTH

\* Chunk::calculate_crc, with the payload chained before the type bytes
calculate_crc_data_first(chunk_type, data) == checksum(data \o bytes(chunk_type))

\* Chunk::calculate_crc over the payload alone
calculate_crc_data_only(chunk_type, data) == checksum(data)

\* Chunk::calculate_crc
calculate_crc(chunk_type, data) == checksum(bytes(chunk_type) \o data)

\* Chunk::new taking the checksum of the payload alone
Chunk_new_crc_of_data(chunk_type, data) ==
    [length     |-> usize(Len(data)),
     chunk_type |-> chunk_type,
     data       |-> data,
     crc        |-> checksum(data)]

\* Chunk::new (data.len() fits a u32 for every buffer enumerated here)
Chunk_new(chunk_type, data) ==
    [length     |-> usize(Len(data)),
     chunk_type |-> chunk_type,
     data       |-> data,
     crc        |-> calculate_crc(chunk_type, data)]

\* Chunk::as_bytes writing the length least significant byte first
Chunk_as_bytes_le(c) ==
    <<c.length.lo % 256, c.length.lo \div 256, c.length.hi % 256, c.length.hi \div 256>>
    \o bytes(c.chunk_type) \o c.data \o to_be_bytes(c.crc)

\* Chunk::as_bytes chaining the crc before the data
Chunk_as_bytes_crc_first(c) ==
    to_be_bytes(c.length) \o bytes(c.chunk_type) \o to_be_bytes(c.crc) \o c.data

\* Chunk::as_bytes
Chunk_as_bytes(c) ==
    to_be_bytes(c.length) \o bytes(c.chunk_type) \o c.data \o to_be_bytes(c.crc)

\* the data check of the earlier revision: value.len() != length as usize + 4
DataTooShort_exact(value, length) ==
    length.hi > 0 \/ Len(value) # length.lo + 4

\* value.len() < length as usize
DataTooShort(value, length) == ULess(usize(Len(value)), length)

\* a comparison of the low halves only
CrcDiffers_low(crc, actual_crc) == crc.lo # actual_crc.lo

\* crc != actual_crc
CrcDiffers(crc, actual_crc) == crc # actual_crc

\* the parser with the data-length check moved before the type check
Chunk_try_from_length_first(value) ==
    IF Len(value) < LENGTH_LENGTH THEN Err("NoDataLengthProvided", <<>>)
    ELSE
    LET s1     == split_at(value, LENGTH_LENGTH)
        length == from_be_bytes(s1[1])
    IN
    IF Len(s1[2]) < TYPE_LENGTH THEN Err("NoChunkTypeProvided", <<>>)
    ELSE
    LET s2         == split_at(s1[2], TYPE_LENGTH)
        chunk_type == ChunkType_try_from(s2[1])
    IN
    IF DataTooShort(s2[2], length)
    THEN Err("NonMatchingDataLength", <<length, usize(Len(s2[2]))>>)
    ELSE IF ~chunk_type.ok THEN chunk_type
    ELSE
    LET s3   == split_at(s2[2], AsIndex(length))
        data == s3[1]
    IN
    IF Len(s3[2]) < CRC_LENGTH THEN Err("NoCrcProvided", <<>>)
    ELSE
    LET crc        == from_be_bytes(split_at(s3[2], CRC_LENGTH)[1])
        actual_crc == calculate_crc(chunk_type.val, data)
    IN
    IF CrcDiffers(crc, actual_crc) THEN Err("InvalidCrc", <<crc, actual_crc>>)
    ELSE Ok([length     |-> length,
             chunk_type |-> chunk_type.val,
             data       |-> data,
             crc        |-> crc])

\* impl TryFrom<&[u8]> for Chunk
Chunk_try_from(value) ==
    IF Len(value) < LENGTH_LENGTH THEN Err("NoDataLengthProvided", <<>>)
    ELSE
    LET s1     == split_at(value, LENGTH_LENGTH)
        length == from_be_bytes(s1[1])
    IN
    IF Len(s1[2]) < TYPE_LENGTH THEN Err("NoChunkTypeProvided", <<>>)
    ELSE
    LET s2         == split_at(s1[2], TYPE_LENGTH)
        chunk_type == ChunkType_try_from(s2[1])
    IN
    IF ~chunk_type.ok THEN chunk_type
    ELSE IF DataTooShort(s2[2], length)
    THEN Err("NonMatchingDataLength", <<length, usize(Len(s2[2]))>>)
    ELSE
    LET s3   == split_at(s2[2], AsIndex(length))
        data == s3[1]
    IN
    IF Len(s3[2]) < CRC_LENGTH THEN Err("NoCrcProvided", <<>>)
    ELSE
    LET crc        == from_be_bytes(split_at(s3[2], CRC_LENGTH)[1])
        actual_crc == calculate_crc(chunk_type.val, data)
    IN
    IF CrcDiffers(crc, actual_crc) THEN Err("InvalidCrc", <<crc, actual_crc>>)
    ELSE Ok([length     |-> length,
             chunk_type |-> chunk_type.val,
             data       |-> data,
             crc        |-> crc])

-----------------------------------------------------------------------------
(* The earlier revision of the chunk codec: src/chunk.rs *)

\* a panic: the call returns nothing
Panic(msg) == [ok |-> FALSE, panic |-> msg]

\* the usize 2^64 - k that a subtraction wraps to (k > 0)
WrappedUsize(k) == [below_zero |-> k]

\* value.len() - 4 on usize: where it goes below zero a build with overflow
\* checks panics and a build without them wraps
Legacy_available(value) ==
    IF Len(value) >= 4 THEN {Ok(usize(Len(value) - 4))}
    ELSE {Panic("attempt to subtract with overflow"),
          Ok(WrappedUsize(4 - Len(value)))}

\* the check of the later revision put in its place: value.len() < length + 4
Legacy_length_mismatch_short(value, length) ==
    length.hi > 0 \/ Len(value) < length.lo + 4

\* value.len() != length as usize + 4 (usize is 64 bits wide: no overflow)
Legacy_length_mismatch(value, length) ==
    length.hi > 0 \/ Len(value) # length.lo + 4

\* impl TryFrom<&[u8]> for Chunk of src/chunk.rs: the set of outcomes the
\* builds of the crate can produce on value
Legacy_try_from(value) ==
    IF Len(value) < 4 THEN {Err("NoDataLengthProvided", <<>>)}
    ELSE
    LET s1     == split_at(value, 4)
        length == from_be_bytes(s1[1])
    IN
    IF Len(s1[2]) < 4 THEN {Err("NoChunkTypeProvided", <<>>)}
    ELSE
    LET s2         == split_at(s1[2], 4)
        chunk_type == ChunkType_try_from(s2[1])
    IN
    IF ~chunk_type.ok THEN {chunk_type}
    ELSE IF Legacy_length_mismatch(s2[2], length)
    THEN {IF a.ok THEN Err("NonMatchingDataLength", <<length, a.val>>) ELSE a :
            a \in Legacy_available(s2[2])}
    ELSE
    LET s3         == split_at(s2[2], AsIndex(length))
        data       == s3[1]
        crc        == from_be_bytes(s3[2])
        actual_crc == calculate_crc(chunk_type.val, data)
    IN
    IF crc # actual_crc THEN {Err("InvalidCrc", <<crc, actual_crc>>)}
    ELSE {Ok([length     |-> length,
              chunk_type |-> chunk_type.val,
              data       |-> data,
              crc        |-> crc])}

\* the probe of a container no call has touched yet
Idle == [stage |-> "idle"]

-----------------------------------------------------------------------------
(* Chunk payload as text *)

\* the width of the UTF-8 sequence that starts at b[i], 0 when none does
\* (the table std::str::from_utf8 validates against)
Utf8Width(b, i) ==
    LET x == b[i]
        Cont(k, lo, hi) == i + k <= Len(b) /\ b[i + k] \in lo..hi
    IN  IF x < 128 THEN 1
        ELSE IF x \in 194..223
        THEN (IF Cont(1, 128, 191) THEN 2 ELSE 0)
        ELSE IF x = 224
        THEN (IF Cont(1, 160, 191) /\ Cont(2, 128, 191) THEN 3 ELSE 0)
        ELSE IF x \in 225..236 \/ x \in 238..239
        THEN (IF Cont(1, 128, 191) /\ Cont(2, 128, 191) THEN 3 ELSE 0)
        ELSE IF x = 237
        THEN (IF Cont(1, 128, 159) /\ Cont(2, 128, 191) THEN 3 ELSE 0)
        ELSE IF x = 240
        THEN (IF Cont(1, 144, 191) /\ Cont(2, 128, 191) /\ Cont(3, 128, 191)
              THEN 4 ELSE 0)
        ELSE IF x \in 241..243
        THEN (IF Cont(1, 128, 191) /\ Cont(2, 128, 191) /\ Cont(3, 128, 191)
              THEN 4 ELSE 0)
        ELSE IF x = 244
        THEN (IF Cont(1, 128, 143) /\ Cont(2, 128, 191) /\ Cont(3, 128, 191)
              THEN 4 ELSE 0)
        ELSE 0

RECURSIVE Utf8From(_, _)
\* b is valid UTF-8 from position i on
Utf8From(b, i) ==
    IF i > Len(b) THEN TRUE
    ELSE LET w == Utf8Width(b, i) IN w > 0 /\ Utf8From(b, i + w)

\* std::str::from_utf8(..).is_ok()
IsUtf8(b) == Utf8From(b, 1)

\* Chunk::data_as_string: the String holds the bytes of the payload
data_as_string(c) ==
    IF IsUtf8(c.data) THEN Ok(c.data) ELSE Err("Utf8Error", <<>>)

-----------------------------------------------------------------------------
(* Png: the container of the library crate *)

\* the 8 bytes every file starts with
Signature == <<137, 80, 78, 71, 13, 10, 26, 10>>

\* a container: the chunks in file order
Png_from_chunks(chunks) == [chunks |-> chunks]

RECURSIVE ChunksAsBytes(_, _)
\* the serialized chunks from position i on, back to back
ChunksAsBytes(chunks, i) ==
    IF i > Len(chunks) THEN <<>>
    ELSE Chunk_as_bytes(chunks[i]) \o ChunksAsBytes(chunks, i + 1)

\* Png::as_bytes
Png_as_bytes(p) == Signature \o ChunksAsBytes(p.chunks, 1)

RECURSIVE ParseChunks(_, _)
\* the records of rest, one after another until rest is used up; the first
\* record that fails to parse ends the parse with its error
ParseChunks(rest, acc) ==
    IF Len(rest) = 0 THEN Ok(Png_from_chunks(acc))
    ELSE LET c == Chunk_try_from(rest)
         IN  IF ~c.ok THEN c
             ELSE ParseChunks(
                    SubSeq(rest, METEDATA_LENGTH + AsIndex(c.val.length) + 1, Len(rest)),
                    Append(acc, c.val))

\* Png::try_from(bytes)
Png_try_from(value) ==
    IF Len(value) < Len(Signature) \/ SubSeq(value, 1, Len(Signature)) # Signature
    THEN Err("InvalidSignature", <<>>)
    ELSE ParseChunks(SubSeq(value, Len(Signature) + 1, Len(value)), <<>>)

\* Png::from_file(path), given the bytes at path
Png_from_file(content) == Png_try_from(content)

\* Png::append_chunk
Png_append_chunk(p, c) == Png_from_chunks(Append(p.chunks, c))

\* the positions of the chunks whose type reads as code
Matches(p, code) == {i \in 1..Len(p.chunks) : bytes(p.chunks[i].chunk_type) = code}

\* the least position of a nonempty set of positions
First(S) == CHOOSE i \in S : \A j \in S : i <= j

\* Png::chunk_by_type returning the match nearest the end of the file
Png_chunk_by_type_last(p, code) ==
    IF Matches(p, code) = {} THEN <<>>
    ELSE <<p.chunks[CHOOSE i \in Matches(p, code) : \A j \in Matches(p, code) : j <= i]>>

\* Png::chunk_by_type: the first chunk of that type, or None
Png_chunk_by_type(p, code) ==
    IF Matches(p, code) = {} THEN <<>>
    ELSE <<p.chunks[First(Matches(p, code))]>>

\* the sequence without its i-th element
RemoveAt(seq, i) == SubSeq(seq, 1, i - 1) \o SubSeq(seq, i + 1, Len(seq))

\* Png::remove_chunk: the first chunk of that type leaves the container and
\* is returned
Png_remove_chunk(p, code) ==
    IF Matches(p, code) = {} THEN Err("ChunkNotFound", <<code>>)
    ELSE LET i == First(Matches(p, code))
         IN  Ok([png   |-> Png_from_chunks(RemoveAt(p.chunks, i)),
                 chunk |-> p.chunks[i]])

-----------------------------------------------------------------------------
(* Commands *)

\* what a command leaves behind: the bytes at path, the bytes written to
\* another path if any, and what it returns
Outcome(content, other, result) == [file |-> content, other |-> other, result |-> result]

\* commands::encode; output is None (<<>>) or Some path other than path
encode(content, code, message, output) ==
    LET opened == Png_from_file(content)
    IN  IF ~opened.ok THEN Outcome(content, <<>>, opened)
        ELSE LET chunk_type == ChunkType_from_str(code)
             IN  IF ~chunk_type.ok THEN Outcome(content, <<>>, chunk_type)
                 ELSE LET c         == Chunk_new(chunk_type.val, message)
                          out_bytes == Png_as_bytes(Png_append_chunk(opened.val, c))
                      IN  IF output = <<>>
                          THEN Outcome(out_bytes, <<>>, Ok(<<>>))
                          ELSE Outcome(content, <<out_bytes>>, Ok(<<>>))

\* commands::decode
decode(content, code) ==
    LET opened == Png_from_file(content)
    IN  IF ~opened.ok THEN Outcome(content, <<>>, opened)
        ELSE LET found == Png_chunk_by_type(opened.val, code)
             IN  IF found = <<>>
                 THEN Outcome(content, <<>>, Err("Could not find message", <<code>>))
                 ELSE Outcome(content, <<>>, data_as_string(found[1]))

\* commands::remove with the payload decoded ahead of the write
remove_decode_first(content, code) ==
    LET opened == Png_from_file(content)
    IN  IF ~opened.ok THEN Outcome(content, <<>>, opened)
        ELSE LET removed == Png_remove_chunk(opened.val, code)
             IN  IF ~removed.ok THEN Outcome(content, <<>>, removed)
                 ELSE LET message == data_as_string(removed.val.chunk)
                      IN  IF ~message.ok THEN Outcome(content, <<>>, message)
                          ELSE Outcome(Png_as_bytes(removed.val.png), <<>>, message)

\* commands::remove: the write comes before the payload is decoded
remove(content, code) ==
    LET opened == Png_from_file(content)
    IN  IF ~opened.ok THEN Outcome(content, <<>>, opened)
        ELSE LET removed == Png_remove_chunk(opened.val, code)
             IN  IF ~removed.ok THEN Outcome(content, <<>>, removed)
                 ELSE Outcome(Png_as_bytes(removed.val.png), <<>>,
                              data_as_string(removed.val.chunk))

-----------------------------------------------------------------------------
(* Inputs *)

\* the code bytes tried in every position of a [u8; 4]: both ends of each
\* range of the rejecting pattern, and letters with bit 0x20 clear and set
CodeBytes == {0, 64, 65, 90, 91, 96, 97, 122, 123, 255}

CodeArrays == [1..4 -> CodeBytes]

\* the type codes of the unit tests and wrong-length strings around them
RuSt == <<82, 117, 83, 116>>

CodeStrings ==
    { RuSt,                          \* "RuSt"
      <<114, 117, 83, 116>>,         \* "ruSt"
      <<82, 85, 83, 116>>,           \* "RUSt"
      <<82, 117, 115, 116>>,         \* "Rust"
      <<82, 117, 83, 84>>,           \* "RuST"
      <<82, 117, 49, 116>>,          \* "Ru1t"
      <<>>,                          \* ""
      <<82, 117, 83>>,               \* "RuS"
      <<82, 49, 83>>,                \* "R1S"
      <<82, 117, 83, 116, 120>>,     \* "RuStx"
      <<82, 117, 49, 116, 120>> }    \* "Ru1tx"

\* "This is where your secret message will be!"
Message ==
    <<84, 104, 105, 115, 32, 105, 115, 32, 119, 104, 101, 114, 101, 32,
      121, 111, 117, 114, 32, 115, 101, 99, 114, 101, 116, 32, 109, 101,
      115, 115, 97, 103, 101, 32, 119, 105, 108, 108, 32, 98, 101, 33>>

DataBytes == {0, 65, 255}

SeqsUpTo(S, n) == UNION {[1..k -> S] : k \in 0..n}

DataSet == SeqsUpTo(DataBytes, MaxData) \cup {Message}

TrailBytes == {0, 82}

TrailSet == SeqsUpTo(TrailBytes, MaxTrail) \ {<<>>}

\* the parts the unit tests assemble a record from
PartLengths ==
    {usize(n) : n \in 0..(MaxData + 1)} \cup {usize(Len(Message)), U(1, 0), U(65535, 65535)}

PartCodes == {RuSt, <<82, 117, 49, 116>>, <<49, 117, 83, 116>>}

PartCrcs(code, data) ==
    {checksum(code \o data), UDec(checksum(code \o data)), U(0, 0)}

NotMade == [by |-> "none", edit |-> "none", base |-> <<>>, at |-> 0, bit |-> 0]

\* the byte b with bit k (0 = least significant) inverted
FlipBitOf(b, k) == Xor8(b, 2 ^ k)

-----------------------------------------------------------------------------
(* State machine *)

Init ==
    /\ cinput = [from |-> "none", value |-> <<>>]
    /\ ctype = <<>>
    /\ flags = <<>>
    /\ chunk = <<>>
    /\ buf = <<>>
    /\ made = NotMade
    /\ res = <<>>
    /\ legacy = <<>>
    /\ png = <<>>
    /\ probe = Idle
    /\ file = <<>>
    /\ cmd = <<>>

\* ChunkType::try_from(code)
TypeFromBytes ==
    /\ ctype = <<>> /\ made.by = "none"
    /\ \E code \in CodeArrays :
        /\ cinput' = [from |-> "bytes", value |-> code]
        /\ ctype' = <<ChunkType_try_from(code)>>
    /\ UNCHANGED <<flags, chunk, buf, made, res, legacy, pngVars>>

\* ChunkType::from_str(&code)  (commands.rs encode, the unit tests)
TypeFromStr ==
    /\ ctype = <<>> /\ made.by = "none"
    /\ \E s \in CodeStrings :
        /\ cinput' = [from |-> "str", value |-> s]
        /\ ctype' = <<ChunkType_from_str(s)>>
    /\ UNCHANGED <<flags, chunk, buf, made, res, legacy, pngVars>>

\* the five flag queries on a constructed ChunkType
QueryFlags ==
    /\ ctype # <<>> /\ ctype[1].ok
    /\ flags = <<>> /\ chunk = <<>>
    /\ flags' = <<[critical       |-> is_critical(ctype[1].val),
                   public         |-> is_public(ctype[1].val),
                   reserved_valid |-> is_reserved_bit_valid(ctype[1].val),
                   safe_to_copy   |-> is_safe_to_copy(ctype[1].val),
                   valid          |-> is_valid(ctype[1].val)]>>
    /\ UNCHANGED <<cinput, ctype, chunk, buf, made, res, legacy, pngVars>>

\* Chunk::new(chunk_type, data) on the type parsed from the code string
NewChunk ==
    /\ cinput.from = "str" /\ ctype[1].ok
    /\ flags = <<>> /\ chunk = <<>>
    /\ \E data \in DataSet : chunk' = <<Chunk_new(ctype[1].val, data)>>
    /\ UNCHANGED <<cinput, ctype, flags, buf, made, res, legacy, pngVars>>

\* chunk.as_bytes()
AsBytes ==
    /\ chunk # <<>> /\ made.by = "none"
    /\ buf' = Chunk_as_bytes(chunk[1])
    /\ made' = [NotMade EXCEPT !.by = "as_bytes"]
    /\ UNCHANGED <<cinput, ctype, flags, chunk, res, legacy, pngVars>>

\* the unit tests' record: length.to_be_bytes ++ type ++ data ++ crc.to_be_bytes
FromParts ==
    /\ ctype = <<>> /\ made.by = "none"
    /\ \E length \in PartLengths, code \in PartCodes, data \in DataSet :
        \E crc \in PartCrcs(code, data) :
            buf' = to_be_bytes(length) \o code \o data \o to_be_bytes(crc)
    /\ made' = [NotMade EXCEPT !.by = "parts"]
    /\ UNCHANGED <<cinput, ctype, flags, chunk, res, legacy, pngVars>>

\* one bit of a serialized record is inverted before it is parsed
FlipBit ==
    /\ made.by = "as_bytes" /\ made.edit = "none" /\ res = <<>>
    /\ \E i \in 1..Len(buf), k \in 0..7 :
        /\ buf' = [buf EXCEPT ![i] = FlipBitOf(buf[i], k)]
        /\ made' = [made EXCEPT !.edit = "flip", !.base = buf, !.at = i, !.bit = k]
    /\ UNCHANGED <<cinput, ctype, flags, chunk, res, legacy, pngVars>>

\* the parser is handed only the first n bytes
Truncate ==
    /\ made.by # "none" /\ made.edit = "none" /\ res = <<>>
    /\ \E n \in 0..(Len(buf) - 1) :
        /\ buf' = SubSeq(buf, 1, n)
        /\ made' = [made EXCEPT !.edit = "truncate", !.base = buf, !.at = n]
    /\ UNCHANGED <<cinput, ctype, flags, chunk, res, legacy, pngVars>>

\* the parser is handed the record followed by more bytes (the rest of a file)
Extend ==
    /\ made.by # "none" /\ made.edit = "none" /\ res = <<>>
    /\ \E t \in TrailSet :
        /\ buf' = buf \o t
        /\ made' = [made EXCEPT !.edit = "extend", !.base = buf, !.at = Len(buf)]
    /\ UNCHANGED <<cinput, ctype, flags, chunk, res, legacy, pngVars>>

\* Chunk::try_from(buf)
Parse ==
    /\ made.by # "none" /\ res = <<>>
    /\ res' = <<Chunk_try_from(buf)>>
    /\ UNCHANGED <<cinput, ctype, flags, chunk, buf, made, legacy, pngVars>>

\* the earlier revision's Chunk::try_from(buf), on a buffer already parsed
ParseLegacy ==
    /\ res # <<>> /\ legacy = <<>>
    /\ \E o \in Legacy_try_from(buf) : legacy' = <<o>>
    /\ UNCHANGED <<cinput, ctype, flags, chunk, buf, made, res, pngVars>>

Next ==
    \/ TypeFromBytes
    \/ TypeFromStr
    \/ QueryFlags
    \/ NewChunk
    \/ AsBytes
    \/ FromParts
    \/ FlipBit
    \/ Truncate
    \/ Extend
    \/ Parse
    \/ ParseLegacy

Spec == Init /\ [][Next]_vars

-----------------------------------------------------------------------------
(* Files, containers and commands *)

\* the most chunks a file or a container holds here
MaxChunks == 2

\* type codes of the chunks in the files: "RuSt" and "ruSt"
PoolCodes == {RuSt, <<114, 117, 83, 116>>}

\* payloads of the chunks in the files: "", "e" with an acute accent (two
\* bytes of UTF-8), and a byte no UTF-8 text holds
PoolData == {<<>>, <<195, 169>>, <<255>>}

PoolChunks == {Chunk_new(ChunkType_try_from(t).val, d) : t \in PoolCodes, d \in PoolData}

\* the files a Png::as_bytes wrote
Stored == {Png_as_bytes(Png_from_chunks(cs)) : cs \in SeqsUpTo(PoolChunks, MaxChunks)}

\* f cut or overwritten somewhere: inside the signature, inside its last
\* record, or with bytes after the last record
Damaged(f) ==
    {SubSeq(f, 1, Len(Signature) - 1),
     <<FlipBitOf(f[1], 0)>> \o SubSeq(f, 2, Len(f)),
     f \o <<0>>}
    \cup (IF Len(f) > Len(Signature)
          THEN {SubSeq(f, 1, Len(f) - 1),
                SubSeq(f, 1, Len(f) - 1) \o <<FlipBitOf(f[Len(f)], 0)>>}
          ELSE {})

\* what may be at path when the program starts; <<>> is an empty file, the
\* one in front of a program that builds its container in memory
InitialFiles == {<<>>} \cup Stored \cup UNION {Damaged(f) : f \in Stored}

\* the codes given on the command line: the two of the pool, "IEND" (valid,
\* in no file), "Ru1t" (a digit) and "RuS" (three characters)
CodeTexts ==
    PoolCodes \cup {<<73, 69, 78, 68>>, <<82, 117, 49, 116>>, <<82, 117, 83>>}

\* the messages given to encode: "" and "Hi"
Messages == {<<>>, <<72, 105>>}

\* encode's output argument: None, or Some other path
Outputs == {<<>>, <<"out.png">>}

InitPng ==
    /\ cinput = [from |-> "none", value |-> <<>>]
    /\ ctype = <<>>
    /\ flags = <<>>
    /\ chunk = <<>>
    /\ buf = <<>>
    /\ made = NotMade
    /\ res = <<>>
    /\ legacy = <<>>
    /\ png = <<>>
    /\ probe = Idle
    /\ file \in InitialFiles
    /\ cmd = <<>>

\* Png::from_chunks(vec![]): a container built in memory
PngNew ==
    /\ png = <<>> /\ cmd = <<>> /\ file = <<>>
    /\ png' = <<Ok(Png_from_chunks(<<>>))>>
    /\ probe' = Idle
    /\ UNCHANGED <<codecVars, file, cmd>>

\* Png::try_from on the bytes of the file
PngParse ==
    /\ png = <<>> /\ cmd = <<>>
    /\ png' = <<Png_try_from(file)>>
    /\ probe' = [stage |-> "parsed"]
    /\ UNCHANGED <<codecVars, file, cmd>>

\* png.append_chunk(c)
PngAppend ==
    /\ png # <<>> /\ png[1].ok
    /\ probe.stage \in {"idle", "appended"}
    /\ Len(png[1].val.chunks) < MaxChunks
    /\ \E c \in PoolChunks :
          /\ png' = <<Ok(Png_append_chunk(png[1].val, c))>>
          /\ probe' = [stage |-> "appended", chunk |-> c, before |-> png[1].val]
    /\ UNCHANGED <<codecVars, file, cmd>>

\* png.chunk_by_type(code) after an append, and again with that code after
\* the removal that followed
PngFind ==
    /\ png # <<>> /\ png[1].ok
    /\ probe.stage \in {"appended", "removed"}
    /\ \E code \in (IF probe.stage = "removed" THEN {probe.code} ELSE CodeTexts) :
          probe' = IF probe.stage = "appended"
                   THEN [stage  |-> "found",
                         chunk  |-> probe.chunk,
                         before |-> probe.before,
                         code   |-> code,
                         found  |-> Png_chunk_by_type(png[1].val, code)]
                   ELSE [stage   |-> "refound",
                         chunk   |-> probe.chunk,
                         before  |-> probe.before,
                         code    |-> probe.code,
                         found   |-> probe.found,
                         removed |-> probe.removed,
                         refound |-> Png_chunk_by_type(png[1].val, code)]
    /\ UNCHANGED <<codecVars, png, file, cmd>>

\* png.remove_chunk(code), with the code just looked up when it follows a
\* lookup: the container changes when a chunk is found
PngRemove ==
    /\ png # <<>> /\ png[1].ok
    /\ probe.stage \in {"idle", "appended", "found"}
    /\ \E code \in (IF probe.stage = "found" THEN {probe.code} ELSE CodeTexts) :
          \E removed \in {Png_remove_chunk(png[1].val, code)} :
              /\ png' = IF removed.ok THEN <<Ok(removed.val.png)>> ELSE png
              /\ probe' = IF probe.stage = "found"
                          THEN [stage   |-> "removed",
                                chunk   |-> probe.chunk,
                                before  |-> probe.before,
                                code    |-> probe.code,
                                found   |-> probe.found,
                                removed |-> removed]
                          ELSE Idle
    /\ UNCHANGED <<codecVars, file, cmd>>

\* the file is short enough for one more chunk
RoomToEncode ==
    LET opened == Png_from_file(file)
    IN  opened.ok => Len(opened.val.chunks) < MaxChunks

\* pngrs encode path code message [output]
CmdEncode ==
    /\ png = <<>> /\ cmd = <<>> /\ RoomToEncode
    /\ \E code \in CodeTexts, message \in Messages, output \in Outputs :
          \E o \in {encode(file, code, message, output)} :
              /\ file' = o.file
              /\ cmd' = <<[name   |-> "encode",
                           code   |-> code,
                           before |-> file,
                           other  |-> o.other,
                           result |-> o.result]>>
    /\ UNCHANGED <<codecVars, png, probe>>

\* pngrs decode path code
CmdDecode ==
    /\ png = <<>> /\ cmd = <<>>
    /\ \E code \in CodeTexts :
          \E o \in {decode(file, code)} :
              /\ file' = o.file
              /\ cmd' = <<[name   |-> "decode",
                           code   |-> code,
                           before |-> file,
                           other  |-> o.other,
                           result |-> o.result]>>
    /\ UNCHANGED <<codecVars, png, probe>>

\* pngrs remove path code
CmdRemove ==
    /\ png = <<>> /\ cmd = <<>>
    /\ \E code \in CodeTexts :
          \E o \in {remove(file, code)} :
              /\ file' = o.file
              /\ cmd' = <<[name   |-> "remove",
                           code   |-> code,
                           before |-> file,
                           other  |-> o.other,
                           result |-> o.result]>>
    /\ UNCHANGED <<codecVars, png, probe>>

NextPng ==
    \/ PngNew
    \/ PngParse
    \/ PngAppend
    \/ PngFind
    \/ PngRemove
    \/ CmdEncode
    \/ CmdDecode
    \/ CmdRemove

SpecPng == InitPng /\ [][NextPng]_vars

-----------------------------------------------------------------------------
(* Properties.  The helpers below restate the wire format on its own terms *)
(* (positions in the buffer, letter ranges), not through the parser.       *)

IsAsciiLetter(c) == c \in 65..90 \/ c \in 97..122

Parsed == res # <<>>

Failed(kind) == Parsed /\ ~res[1].ok /\ res[1].err.kind = kind

FailedWith(kind, args) == Failed(kind) /\ res[1].err.args = args

\* the four big-endian bytes b denote the unsigned value u
IsBigEndianOf(b, u) ==
    /\ Len(b) = 4
    /\ \A i \in 1..4 : b[i] \in 0..255
    /\ (b[1] * 256) + b[2] = u.hi
    /\ (b[3] * 256) + b[4] = u.lo

\* the length field of a buffer of at least 4 bytes
Declared(b) == U((b[1] * 256) + b[2], (b[3] * 256) + b[4])

\* the buffer holds a length, 4 letters, the declared payload and 4 more bytes
Framed(b) ==
    /\ Len(b) >= 8
    /\ \A i \in 5..8 : IsAsciiLetter(b[i])
    /\ Declared(b).hi = 0
    /\ Len(b) >= 12 + Declared(b).lo

\* the checksum field of a framed buffer, and the CRC-32 of its type and payload
ProvidedCrc(b) ==
    LET at == 8 + Declared(b).lo
    IN  U((b[at + 1] * 256) + b[at + 2], (b[at + 3] * 256) + b[at + 4])

ComputedCrc(b) == checksum(SubSeq(b, 5, 8 + Declared(b).lo))

\* C1: parsing the unedited output of Chunk::new(t, d).as_bytes() succeeds and
\* returns a chunk with the same chunk_type, data, length and crc.
C1_RoundTrip ==
    (Parsed /\ made.by = "as_bytes" /\ made.edit = "none") =>
        /\ res[1].ok
        /\ res[1].val.chunk_type = chunk[1].chunk_type
        /\ res[1].val.data = chunk[1].data
        /\ res[1].val.length = chunk[1].length
        /\ res[1].val.crc = chunk[1].crc

C1_Witness ==
    /\ Parsed /\ made.by = "as_bytes" /\ made.edit = "none"
    /\ res[1].ok
    /\ Len(chunk[1].data) = MaxData

\* C2: on an input that passes the length, type, data and crc-presence steps
\* the parse fails with InvalidCrc(provided, computed) exactly when the 4
\* big-endian bytes after the data differ from the CRC-32 of type ++ data;
\* and no returned chunk carries a crc other than that CRC-32.
C2_CrcEnforced ==
    /\ (Parsed /\ Framed(buf)) =>
          /\ Failed("InvalidCrc") <=> ProvidedCrc(buf) # ComputedCrc(buf)
          /\ Failed("InvalidCrc") =>
                res[1].err.args = <<ProvidedCrc(buf), ComputedCrc(buf)>>
          /\ ~Failed("InvalidCrc") => res[1].ok
    /\ (Parsed /\ res[1].ok) =>
          res[1].val.crc = checksum(res[1].val.chunk_type.code \o res[1].val.data)

\* the unit test's record: "RuSt", the message, and the checksum less one
C2_Witness ==
    /\ made.by = "parts" /\ made.edit = "none"
    /\ SubSeq(buf, 5, 8) = RuSt
    /\ SubSeq(buf, 9, Len(buf) - 4) = Message
    /\ Framed(buf)
    /\ FailedWith("InvalidCrc", <<U(43985, 55373), U(43985, 55374)>>)

FlippedCovered ==
    /\ Parsed /\ made.by = "as_bytes" /\ made.edit = "flip"
    /\ made.at \in 5..(Len(buf) - 4)

\* C3 as stated: a single flipped bit in the type or data bytes of a
\* serialized record makes the parse fail with InvalidCrc.
C3_Original == FlippedCovered => Failed("InvalidCrc")

\* C3 amended: such a parse always fails; with InvalidByte(b) when the flip
\* turned a type byte into the non-letter b, and with InvalidCrc otherwise
\* (every flip in the data, and every flip that leaves the type a letter).
C3_FlipRejected ==
    FlippedCovered =>
        IF made.at <= 8 /\ ~IsAsciiLetter(buf[made.at])
        THEN FailedWith("InvalidByte", <<buf[made.at]>>)
        ELSE Failed("InvalidCrc")

C3_Witness ==
    /\ FlippedCovered
    /\ made.at <= 8 /\ IsAsciiLetter(buf[made.at])
    /\ Failed("InvalidCrc")

\* the record of the unit tests: length 42, "RuSt", the message, crc 2882656334
\* (2882656334 = 43985 * 65536 + 55374 = 0xABD1D84E)
ScenarioCrc == U(43985, 55374)

ScenarioBytes(n) == to_be_bytes(usize(n)) \o RuSt \o Message \o to_be_bytes(ScenarioCrc)

IsScenarioChunk ==
    /\ chunk # <<>>
    /\ chunk[1].chunk_type.code = RuSt
    /\ chunk[1].data = Message

\* C4 as stated: the message is 44 bytes, Chunk::new yields length 44 and crc
\* 2882656334, and the record with these values parses to these fields.
C4_Original ==
    /\ IsScenarioChunk =>
          /\ Len(chunk[1].data) = 44
          /\ chunk[1].length = usize(44)
          /\ chunk[1].crc = ScenarioCrc
    /\ (Parsed /\ buf = ScenarioBytes(44)) =>
          /\ res[1].ok
          /\ res[1].val = [length |-> usize(44), chunk_type |-> [code |-> RuSt],
                           data |-> Message, crc |-> ScenarioCrc]

\* C4 amended: the message is 42 bytes, Chunk::new("RuSt", message) yields
\* length 42 and crc 2882656334, and parsing 42(BE) ++ "RuSt" ++ message ++
\* crc(BE) succeeds with exactly these fields.
C4_Scenario ==
    /\ IsScenarioChunk =>
          /\ Len(chunk[1].data) = 42
          /\ chunk[1].length = usize(42)
          /\ chunk[1].crc = ScenarioCrc
    /\ (Parsed /\ buf = ScenarioBytes(42)) =>
          /\ res[1].ok
          /\ res[1].val = [length |-> usize(42), chunk_type |-> [code |-> RuSt],
                           data |-> Message, crc |-> ScenarioCrc]

C4_Witness ==
    /\ IsScenarioChunk
    /\ Parsed /\ buf = ScenarioBytes(42)
    /\ res[1].ok

\* C5: ChunkType::try_from succeeds iff all 4 bytes are in 65..90 or 97..122;
\* it fails with InvalidByte(b), b the first byte outside those ranges; on
\* success the stored code is the input.
C5_TypeFromBytes ==
    cinput.from = "bytes" =>
        LET v   == cinput.value
            bad == {i \in 1..4 : ~IsAsciiLetter(v[i])}
        IN  /\ ctype[1].ok <=> bad = {}
            /\ ctype[1].ok => ctype[1].val.code = v
            /\ ~ctype[1].ok =>
                  /\ ctype[1].err.kind = "InvalidByte"
                  /\ \E i \in bad :
                        /\ \A j \in bad : i <= j
                        /\ ctype[1].err.args = <<v[i]>>

\* two different rejected bytes, the first not in front
C5_Witness ==
    /\ cinput.from = "bytes"
    /\ cinput.value = <<65, 91, 122, 0>>
    /\ ~ctype[1].ok
    /\ ctype[1].err.args = <<91>>

\* C6: ChunkType::from_str fails with InvalidLength(n), n the byte length of
\* s, whenever n # 4, whatever the bytes are; when n = 4 its result is that
\* of ChunkType::try_from on the 4 bytes.
C6_TypeFromStr ==
    cinput.from = "str" =>
        LET s == cinput.value
        IN  IF Len(s) # 4
            THEN /\ ~ctype[1].ok
                 /\ ctype[1].err.kind = "InvalidLength"
                 /\ ctype[1].err.args = <<usize(Len(s))>>
            ELSE /\ ctype[1] = ChunkType_try_from(s)
                 /\ ctype[1].ok <=> \A i \in 1..4 : IsAsciiLetter(s[i])

\* "R1S": three bytes, one of them a digit
C6_Witness ==
    /\ cinput.from = "str"
    /\ cinput.value = <<82, 49, 83>>
    /\ ~ctype[1].ok
    /\ ctype[1].err.kind = "InvalidLength"

\* bit 0x20 of the byte b
Bit5(b) == (b \div 32) % 2 = 1

\* C7: on a constructed ChunkType each flag is bit 0x20 of one byte:
\* critical iff unset in byte 1, public iff unset in byte 2, reserved bit
\* valid iff unset in byte 3, safe to copy iff set in byte 4; and is_valid
\* equals is_reserved_bit_valid.
C7_Flags ==
    flags # <<>> =>
        LET code == ctype[1].val.code
        IN  /\ flags[1].critical <=> ~Bit5(code[1])
            /\ flags[1].public <=> ~Bit5(code[2])
            /\ flags[1].reserved_valid <=> ~Bit5(code[3])
            /\ flags[1].safe_to_copy <=> Bit5(code[4])
            /\ flags[1].valid = flags[1].reserved_valid

\* "aAzZ": ancillary, public, reserved bit set, unsafe to copy
C7_Witness ==
    /\ flags # <<>>
    /\ ctype[1].val.code = <<97, 65, 122, 90>>
    /\ flags[1] = [critical |-> FALSE, public |-> TRUE, reserved_valid |-> FALSE,
                   safe_to_copy |-> FALSE, valid |-> FALSE]

\* the bytes after the type field are fewer than the length field declares
ShortOfData(b) == Declared(b).hi > 0 \/ Len(b) - 8 < Declared(b).lo

\* C8: Chunk::try_from reports the first failing step of: fewer than 4 bytes
\* (NoDataLengthProvided); fewer than 4 after the length
\* (NoChunkTypeProvided); a type byte that is no letter (InvalidByte); fewer
\* bytes after the type than declared (NonMatchingDataLength(declared,
\* available)); fewer than 4 bytes after the data (NoCrcProvided); checksum
\* mismatch (InvalidCrc); and succeeds otherwise.
C8_StepOrder ==
    Parsed =>
        LET b == buf
            n == Len(buf)
        IN  /\ Failed("NoDataLengthProvided") <=> n < 4
            /\ n >= 4 =>
                  (Failed("NoChunkTypeProvided") <=> n - 4 < 4)
            /\ n >= 8 =>
                  (Failed("InvalidByte") <=> \E i \in 5..8 : ~IsAsciiLetter(b[i]))
            /\ (n >= 8 /\ \A i \in 5..8 : IsAsciiLetter(b[i])) =>
                  /\ Failed("NonMatchingDataLength") <=> ShortOfData(b)
                  /\ Failed("NonMatchingDataLength") =>
                        res[1].err.args = <<Declared(b), usize(n - 8)>>
                  /\ ~ShortOfData(b) =>
                        (Failed("NoCrcProvided") <=> n - 8 - Declared(b).lo < 4)
            /\ Framed(b) =>
                  /\ Failed("InvalidCrc") <=> ProvidedCrc(b) # ComputedCrc(b)
                  /\ res[1].ok <=> ProvidedCrc(b) = ComputedCrc(b)
            /\ res[1].ok => Framed(b)

\* a buffer with two faults at once: a digit in the type and too little data
C8_Witness ==
    /\ Parsed /\ Len(buf) >= 8
    /\ ShortOfData(buf)
    /\ Failed("InvalidByte")

\* C9: when the parse of a buffer b succeeds, the parse of b followed by any
\* bytes succeeds with the same length, type, data and crc; a successful
\* result is that of parsing the first 12 + length bytes alone.
C9_TrailingIgnored ==
    /\ (Parsed /\ made.edit = "extend" /\ Chunk_try_from(made.base).ok) =>
          /\ res[1].ok
          /\ res[1].val = Chunk_try_from(made.base).val
    /\ (Parsed /\ res[1].ok) =>
          Chunk_try_from(SubSeq(buf, 1, 12 + res[1].val.length.lo)) = res[1]

C9_Witness ==
    /\ Parsed /\ made.edit = "extend"
    /\ Len(buf) = Len(made.base) + MaxTrail
    /\ Chunk_try_from(made.base).ok
    /\ res[1].ok
    /\ Len(res[1].val.data) > 0

Serialized == made.by = "as_bytes" /\ made.edit = "none"

\* C10: Chunk::as_bytes returns 12 + length bytes: the length as 4
\* big-endian bytes, the 4 type bytes, the data in order, the crc as 4
\* big-endian bytes; the call always returns and leaves the chunk as it was.
C10_Layout ==
    /\ [](Serialized =>
            LET c == chunk[1]
                n == Len(c.data)
            IN  /\ Len(buf) = 12 + n
                /\ c.length = usize(n)
                /\ METEDATA_LENGTH = 12
                /\ IsBigEndianOf(SubSeq(buf, 1, 4), c.length)
                /\ SubSeq(buf, 5, 8) = c.chunk_type.code
                /\ SubSeq(buf, 9, 8 + n) = c.data
                /\ IsBigEndianOf(SubSeq(buf, 9 + n, 12 + n), c.crc))
    /\ [][(chunk # <<>> /\ made.by = "none") =>
            (ENABLED AsBytes /\ (made'.by = "as_bytes" => chunk' = chunk))]_vars

C10_Witness ==
    /\ Serialized
    /\ Len(chunk[1].data) = MaxData
    /\ Len(buf) = 12 + MaxData

ParsedLegacy == legacy # <<>>

Panicked(o) == "panic" \in DOMAIN o

\* C11: neither chunk parser panics on any input: each returns a Chunk or
\* an error value, and no subtraction in it leaves the range of its type.
C11_NoPanic ==
    /\ Parsed => (res[1].ok \/ "err" \in DOMAIN res[1])
    /\ ParsedLegacy =>
          /\ ~Panicked(legacy[1])
          /\ (~legacy[1].ok /\ legacy[1].err.kind = "NonMatchingDataLength") =>
                "below_zero" \notin DOMAIN legacy[1].err.args[2]

\* a Chunk value keeps the two invariants of the record
WellFormed(c) ==
    /\ c.length = usize(Len(c.data))
    /\ c.crc = checksum(c.chunk_type.code \o c.data)

\* C12: every Chunk from Chunk::new or from a successful Chunk::try_from has
\* length = data.len() and crc = CRC-32(type bytes ++ data), and once built
\* no later call changes it.
C12_ChunkInvariant ==
    /\ [](/\ chunk # <<>> => WellFormed(chunk[1])
          /\ (Parsed /\ res[1].ok) => WellFormed(res[1].val))
    /\ [][(chunk # <<>> => chunk' = chunk) /\ (Parsed => res' = res)]_vars

\* a parse that had to stop reading the data at the declared length
C12_Witness ==
    /\ Parsed /\ res[1].ok
    /\ made.by = "parts" /\ made.edit = "extend"
    /\ Len(res[1].val.data) = MaxData
    /\ Len(buf) > 12 + MaxData

\* the two parsers return the same chunk or the same error
SameOutcome(a, b) ==
    /\ ~Panicked(a) /\ ~Panicked(b)
    /\ a.ok = b.ok
    /\ a.ok => a.val = b.val
    /\ ~a.ok => (a.err.kind = b.err.kind /\ a.err.args = b.err.args)

\* C15: on an input of exactly 12 + declared length bytes the earlier and the
\* current parser return the same chunk or fail at the same step; a record
\* the current parser accepts with bytes after it is rejected by the earlier
\* one with NonMatchingDataLength; whatever the earlier one accepts the
\* current one accepts, with the same fields.
C15_LegacyAgrees ==
    ParsedLegacy =>
        /\ (/\ Len(buf) >= 4
            /\ Declared(buf).hi = 0
            /\ Len(buf) = 12 + Declared(buf).lo) => SameOutcome(legacy[1], res[1])
        /\ (res[1].ok /\ Len(buf) > 12 + res[1].val.length.lo) =>
              /\ ~Panicked(legacy[1]) /\ ~legacy[1].ok
              /\ legacy[1].err.kind = "NonMatchingDataLength"
              /\ legacy[1].err.args = <<res[1].val.length, usize(Len(buf) - 12)>>
        /\ (~Panicked(legacy[1]) /\ legacy[1].ok) =>
              (res[1].ok /\ res[1].val = legacy[1].val)

C15_Witness ==
    /\ ParsedLegacy
    /\ made.edit = "extend"
    /\ res[1].ok /\ Len(res[1].val.data) > 0
    /\ ~Panicked(legacy[1]) /\ ~legacy[1].ok
    /\ legacy[1].err.kind = "NonMatchingDataLength"

\* the chunks of a sequence whose type code is code, in their order
OfType(chunks, code) == SelectSeq(chunks, LAMBDA ch : ch.chunk_type.code = code)

\* a lookup by the type code of the chunk just appended has been made
AskedForAppended ==
    /\ probe.stage \in {"found", "removed", "refound"}
    /\ probe.code = probe.chunk.chunk_type.code

\* the chunks of the appended chunk's type, the appended one last
Candidates == OfType(Append(probe.before.chunks, probe.chunk), probe.code)

\* C13 as stated: after append(c), find by c's type returns exactly c, and
\* after remove-first by that code the same find returns "not found".
C13_Original ==
    AskedForAppended =>
        /\ probe.found = <<probe.chunk>>
        /\ probe.stage = "refound" => probe.refound = <<>>

\* C13: after append(c), find by c's type returns the first chunk of that type
\* in file order, which is c when the container held none of that type;
\* remove-first takes that same chunk out and leaves the others in order; the
\* find that follows returns the next chunk of that type, and "not found"
\* exactly when no other chunk of that type is left.
C13_FirstMatch ==
    AskedForAppended =>
        /\ probe.found = <<Candidates[1]>>
        /\ OfType(probe.before.chunks, probe.code) = <<>> => probe.found = <<probe.chunk>>
        /\ probe.stage \in {"removed", "refound"} =>
              /\ probe.removed.ok
              /\ probe.removed.val.chunk = Candidates[1]
              /\ OfType(png[1].val.chunks, probe.code) = Tail(Candidates)
              /\ Len(png[1].val.chunks) = Len(probe.before.chunks)
        /\ probe.stage = "refound" =>
              /\ probe.refound = (IF Len(Candidates) > 1 THEN <<Candidates[2]>> ELSE <<>>)
              /\ OfType(probe.before.chunks, probe.code) = <<>> => probe.refound = <<>>

\* the whole sequence on a container that held a chunk of another type only
C13_Witness ==
    /\ probe.stage = "refound"
    /\ AskedForAppended
    /\ Len(probe.before.chunks) > 0
    /\ OfType(probe.before.chunks, probe.code) = <<>>
    /\ probe.found = <<probe.chunk>>
    /\ probe.refound = <<>>

\* Png::try_from has run on the bytes of the file
AfterParse == probe.stage = "parsed"

HasSignature(f) ==
    /\ Len(f) >= 8
    /\ SubSeq(f, 1, 8) = <<137, 80, 78, 71, 13, 10, 26, 10>>

RECURSIVE RecordsFrom(_, _)
\* what Chunk::try_from returns for the records laid back to back from offset
\* off on, each 12 + length bytes after the one before, up to the end of f or
\* to the first record that fails
RecordsFrom(f, off) ==
    IF off >= Len(f) THEN <<>>
    ELSE LET r == Chunk_try_from(SubSeq(f, off + 1, Len(f)))
         IN  IF ~r.ok THEN <<r>>
             ELSE <<r>> \o RecordsFrom(f, off + 12 + Len(r.val.data))

\* the two results are the same error
SameError(a, b) ==
    /\ ~a.ok /\ ~b.ok
    /\ a.err.kind = b.err.kind
    /\ a.err.args = b.err.args

\* C14: the container parser checks the 8-byte signature, then parses records
\* back to back, 12 + length bytes each, until the input is used up; the first
\* record that fails ends the parse with that record's error and no container;
\* serialize(parse(b)) = b for every b a serialize produced; the signature
\* alone parses to the empty container, which serializes to those 8 bytes.
C14_ContainerRoundTrip ==
    AfterParse =>
        /\ ~HasSignature(file) =>
              (~png[1].ok /\ png[1].err.kind = "InvalidSignature")
        /\ HasSignature(file) =>
              LET rs == RecordsFrom(file, 8)
              IN  IF rs # <<>> /\ ~rs[Len(rs)].ok
                  THEN SameError(png[1], rs[Len(rs)])
                  ELSE /\ png[1].ok
                       /\ png[1].val.chunks = [i \in 1..Len(rs) |-> rs[i].val]
        /\ file \in Stored =>
              (png[1].ok /\ Png_as_bytes(png[1].val) = file)
        /\ file = <<137, 80, 78, 71, 13, 10, 26, 10>> =>
              /\ png[1].ok
              /\ png[1].val.chunks = <<>>
              /\ Png_as_bytes(png[1].val) = file

\* a stored file of records of different sizes, parsed
C14_Witness ==
    /\ AfterParse
    /\ file \in Stored
    /\ png[1].ok
    /\ Len(png[1].val.chunks) = MaxChunks
    /\ Len(png[1].val.chunks[1].data) # Len(png[1].val.chunks[2].data)
    /\ Png_as_bytes(png[1].val) = file

\* the command that ran
Ran(name) == cmd # <<>> /\ cmd[1].name = name

\* the chunks of the file the command found at path, when it parses
ChunksBefore == Png_from_file(cmd[1].before).val.chunks

Readable == Png_from_file(cmd[1].before).ok

\* the chunk a lookup by the command's code lands on
Target == OfType(ChunksBefore, cmd[1].code)[1]

\* no chunk of the file has the command's code
Absent == OfType(ChunksBefore, cmd[1].code) = <<>>

Untouched == file = cmd[1].before /\ cmd[1].other = <<>>

\* C16: remove rewrites the file before it decodes the payload, so removing a
\* chunk whose payload is not UTF-8 returns an error with the file already
\* rewritten; a failed lookup in remove or decode, and an invalid type code in
\* encode, return an error with nothing written.
C16_WriteOrder ==
    /\ (Ran("remove") /\ Readable /\ ~Absent) =>
          /\ file # cmd[1].before
          /\ Len(file) = Len(cmd[1].before) - (12 + Len(Target.data))
          /\ Png_from_file(file).ok
          /\ OfType(Png_from_file(file).val.chunks, cmd[1].code)
                = Tail(OfType(ChunksBefore, cmd[1].code))
          /\ ~IsUtf8(Target.data) =>
                (~cmd[1].result.ok /\ cmd[1].result.err.kind = "Utf8Error")
          /\ IsUtf8(Target.data) =>
                (cmd[1].result.ok /\ cmd[1].result.val = Target.data)
    /\ (Ran("remove") /\ Readable /\ Absent) =>
          (~cmd[1].result.ok /\ cmd[1].result.err.kind = "ChunkNotFound" /\ Untouched)
    /\ Ran("decode") => Untouched
    /\ (Ran("decode") /\ Readable /\ Absent) =>
          (~cmd[1].result.ok /\ cmd[1].result.err.kind = "Could not find message")
    /\ (Ran("encode") /\ ~ChunkType_from_str(cmd[1].code).ok) =>
          (~cmd[1].result.ok /\ Untouched)
    /\ (Ran("encode") /\ Readable /\ ~ChunkType_from_str(cmd[1].code).ok) =>
          cmd[1].result = ChunkType_from_str(cmd[1].code)

\* a removal that failed on the payload after the file was rewritten
C16_Witness ==
    /\ Ran("remove")
    /\ ~cmd[1].result.ok /\ cmd[1].result.err.kind = "Utf8Error"
    /\ file # cmd[1].before
    /\ Len(ChunksBefore) = MaxChunks

====
